---- MODULE Spec2Model ----
(***************************************************************************)
(* Model of bakkesmod_plugin_updater.pyw: the settings loader, the         *)
(* dependency check, the download poll, extraction, installation, cleanup  *)
(* and the GUI worker thread that runs them while the Tk main loop applies *)
(* the progress updates.                                                   *)
(*                                                                         *)
(* Strings are sequences of tokens; a token stands for a run of            *)
(* characters that the program never looks inside ("RocketPlugin_",        *)
(* ".zip", "_dir", "=", "#", "\n", ...).                                   *)
(***************************************************************************)
EXTENDS Integers, Sequences, FiniteSets, TLC

\* ------------------------------------------------------------------ bounds
MaxLines == 2      \* lines of settings.txt
MaxSaves == 2      \* files the browser saves during one run
MaxPolls == 2      \* counted iterations of the polling loop (saturating)
MaxClicks == 2     \* presses of the Start button

\* ------------------------------------------------------- string functions
Prefix(s, n) == SubSeq(s, 1, n)

Suffix(s, n) == SubSeq(s, n, Len(s))

StartsWith(s, pat) == Len(pat) <= Len(s) /\ Prefix(s, Len(pat)) = pat

\* pat in s
Contains(s, pat) == \E i \in 1..(Len(s) + 1) : StartsWith(Suffix(s, i), pat)

\* s.replace(pat, rep): every non-overlapping occurrence, left to right
RECURSIVE Replace(_, _, _)
Replace(s, pat, rep) ==
    IF s = <<>> THEN <<>>
    ELSE IF StartsWith(s, pat)
         THEN rep \o Replace(Suffix(s, Len(pat) + 1), pat, rep)
         ELSE <<Head(s)>> \o Replace(Tail(s), pat, rep)

\* position of the first token t of s, 0 when there is none
IndexOf(s, t) ==
    IF \E i \in 1..Len(s) : s[i] = t
    THEN CHOOSE i \in 1..Len(s) : s[i] = t /\ \A j \in 1..(i - 1) : s[j] # t
    ELSE 0

\* s.split(sep, 1)
Split1(s, sep) ==
    IF IndexOf(s, sep) = 0 THEN <<s>>
    ELSE <<Prefix(s, IndexOf(s, sep) - 1), Suffix(s, IndexOf(s, sep) + 1)>>

\* ------------------------------------------------------ program constants
SETTINGS_TXT == <<"settings.txt">>

UNZIP_BAT == <<"unzip_file.bat">>

DOWNLOAD_DIR == <<"%USERPROFILE%", "\\", "Downloads">>

BAKKESMOD_DIR == <<"%APPDATA%", "\\", "bakkesmod", "\\", "bakkesmod">>

KeyDl == <<"download", "_dir">>

KeyBm == <<"bakkesmod", "_dir">>

DefaultSettings == (KeyDl :> DOWNLOAD_DIR) @@ (KeyBm :> BAKKESMOD_DIR)

\* ------------------------------------------------- binary64 accumulation
\* A non-negative double below 256 that is a multiple of 2^-48 is the
\* three-limb fixed-point number <<h, m, l>> = h + m/2^24 + l/2^48.
Limb == 2 ^ 24

FZero == <<0, 0, 0>>

\* quantum (in units of 2^-48) of a 53-bit significand for magnitude h
Ulp(h) == IF h < 32 THEN 1 ELSE IF h < 64 THEN 2 ELSE IF h < 128 THEN 4 ELSE 8

\* carry propagation of limbs that may have reached Limb or more
Carry(f) ==
    LET l  == f[3] % Limb
        m1 == f[2] + (f[3] \div Limb)
        m  == m1 % Limb
        h  == f[1] + (m1 \div Limb)
    IN  <<h, m, l>>

\* round to nearest, ties to even, at the quantum of the magnitude
RoundEven(f) ==
    LET q    == Ulp(f[1])
        r    == f[3] % q
        down == f[3] - r
        up   == down + q
        low  == IF 2 * r < q THEN down
                ELSE IF 2 * r > q THEN up
                ELSE IF (down \div q) % 2 = 0 THEN down ELSE up
    IN  Carry(<<f[1], f[2], low>>)

\* a + b in binary64
FAdd(a, b) == RoundEven(Carry(<<a[1] + b[1], a[2] + b[2], a[3] + b[3]>>))

\* n / d in binary64, for a quotient in [16, 32) (quantum 2^-48)
FDiv(n, d) ==
    LET h  == n \div d
        r1 == n % d
        m  == (r1 * Limb) \div d
        r2 == (r1 * Limb) % d
        l  == (r2 * Limb) \div d
        r3 == (r2 * Limb) % d
        lr == IF 2 * r3 > d \/ (2 * r3 = d /\ l % 2 = 1) THEN l + 1 ELSE l
    IN  Carry(<<h, m, lr>>)

\* int(-(-p // 1)): the ceiling
FCeil(f) == IF f[2] = 0 /\ f[3] = 0 THEN f[1] ELSE f[1] + 1

FLeq(a, b) ==
    \/ a[1] < b[1]
    \/ a[1] = b[1] /\ a[2] < b[2]
    \/ a[1] = b[1] /\ a[2] = b[2] /\ a[3] <= b[3]

Steps == 6

Increment == FDiv(100, Steps)

Hundred == <<100, 0, 0>>

\* --------------------------------------------------------------- settings
\* line.replace('\n', '')
Strip(line) == Replace(line, <<"\n">>, <<>>)

\* read(file_dir)
Read(file_dir, files, text) == IF file_dir \in files THEN text ELSE <<>>

\* checkDependencies() that looks for settings.txt only
CheckDependenciesOneFile(files) == SETTINGS_TXT \in files

\* checkDependencies()
CheckDependencies(files) == SETTINGS_TXT \in files /\ UNZIP_BAT \in files

\* the loop of loadSettings adopting a configured path without looking
\* whether it exists
RECURSIVE LoadLinesUnchecked(_, _, _, _)
LoadLinesUnchecked(lines, i, st, dirs) ==
    IF i > Len(lines) THEN [ret |-> "True", settings |-> st]
    ELSE LET line == Strip(lines[i]) IN
         IF line # <<>> /\ line[1] # "#"
         THEN LET parts == Split1(line, "=") IN
              IF Len(parts) # 2 THEN [ret |-> "ValueError", settings |-> st]
              ELSE IF parts[1] \in DOMAIN st /\ Contains(parts[1], <<"_dir">>)
                   THEN LoadLinesUnchecked(lines, i + 1, [st EXCEPT ![parts[1]] = parts[2]], dirs)
                   ELSE LoadLinesUnchecked(lines, i + 1, st, dirs)
         ELSE LoadLinesUnchecked(lines, i + 1, st, dirs)

\* the loop of loadSettings over the lines from index i on
RECURSIVE LoadLines(_, _, _, _)
LoadLines(lines, i, st, dirs) ==
    IF i > Len(lines) THEN [ret |-> "True", settings |-> st]
    ELSE LET line == Strip(lines[i]) IN
         IF line # <<>> /\ line[1] # "#"
         THEN LET parts == Split1(line, "=") IN
              IF Len(parts) # 2 THEN [ret |-> "ValueError", settings |-> st]
              ELSE LET setting == parts[1]
                       value   == parts[2]
                   IN  IF setting \in DOMAIN st /\ Contains(setting, <<"_dir">>)
                       THEN IF value \in dirs
                            THEN LoadLines(lines, i + 1, [st EXCEPT ![setting] = value], dirs)
                            ELSE IF st[setting] \notin dirs
                                 THEN [ret |-> "False", settings |-> st]
                                 ELSE LoadLines(lines, i + 1, st, dirs)
                       ELSE LoadLines(lines, i + 1, st, dirs)
         ELSE LoadLines(lines, i + 1, st, dirs)

\* loadSettings(): st is the global mapping on entry
LoadSettings(files, text, st, dirs) ==
    LET contents == Read(SETTINGS_TXT, files, text) IN
    IF contents = <<>>
    THEN IF \E k \in DOMAIN st : Contains(k, <<"_dir">>) /\ st[k] \notin dirs
         THEN [ret |-> "False", settings |-> st]
         ELSE [ret |-> "True", settings |-> st]
    ELSE LoadLines(contents, 1, st, dirs)

\* ------------------------------------------------------------ file system
Sep == <<"\\">>

\* os.path.normcase of an extension on Windows
LowerExt(t) == IF t = ".ZIP" THEN ".zip" ELSE t

\* an entry name matches the glob pattern *.zip
IsZipName(n) == n # <<>> /\ LowerExt(n[Len(n)]) = ".zip"

\* name of the entry of directory dir that the path p denotes, <<>> if none
EntryName(p, dir) ==
    IF StartsWith(p, dir \o Sep) THEN Suffix(p, Len(dir) + 2) ELSE <<>>

\* os.path.exists(p) for a directory of the settings or a path below the
\* polled directory dir, whose entries are ents
PathExists(p, dirs, dir, ents) ==
    \/ p \in dirs
    \/ dir \in dirs /\ EntryName(p, dir) \in DOMAIN ents

\* glob.glob(f"{download_dir}\\*.zip")
Glob(download_dir, dirs, ents) ==
    IF download_dir \in dirs
    THEN {download_dir \o Sep \o n : n \in {e \in DOMAIN ents : IsZipName(e)}}
    ELSE {}

\* the candidates of max(files, key=os.path.getctime)
Latest(files, download_dir, ents) ==
    {f \in files : \A g \in files :
        ents[EntryName(g, download_dir)].ctime <= ents[EntryName(f, download_dir)].ctime}

NoTree == [hasPresets |-> FALSE, presets |-> {}, dll |-> "absent", set |-> "absent"]

\* one pass of the loop of downloadPlugins, with the choice pick of max()
DownloadPoll(download_dir, dirs, ents, pick) ==
    LET files == Glob(download_dir, dirs, ents) IN
    IF files = {} THEN [kind |-> "ValueError", filename |-> <<>>, latest_file |-> <<>>]
    ELSE IF Contains(pick, <<"RocketPlugin_">>)
         THEN [kind |-> "return",
               filename |-> Replace(pick, download_dir \o Sep, <<>>),
               latest_file |-> pick]
         ELSE [kind |-> "again", filename |-> <<>>, latest_file |-> <<>>]

\* a copy that leaves a same-named file in place
CopyIntoKeeping(folder, name, data) == folder \cup {[name |-> name, data |-> data]}

\* shutil.copy of a file into a folder: a same-named file is replaced
CopyInto(folder, name, data) ==
    {f \in folder : f.name # name} \cup {[name |-> name, data |-> data]}

RECURSIVE CopyAll(_, _)
CopyAll(folder, files) ==
    IF files = {} THEN folder
    ELSE LET f == CHOOSE x \in files : TRUE
         IN  CopyAll(CopyInto(folder, f.name, f.data), files \ {f})

\* updatePlugins that swallows the error of a failed copy
UpdatePluginsSwallowing(bakkesmod_dir, dirs, subs, tgt, isDir, tree) ==
    [raised |-> FALSE, targets |-> tgt, copied |-> FALSE]

\* updatePlugins(bakkesmod_dir, file_dir): tree is the extracted tree at
\* file_dir (NoTree when file_dir is no directory), subs the existing
\* subfolders of bakkesmod_dir
UpdatePlugins(bakkesmod_dir, dirs, subs, tgt, isDir, tree) ==
    LET canWrite(d) == bakkesmod_dir \in dirs /\ d \in subs
        t1 == [tgt EXCEPT !["cfg"] = CopyAll(@, tree.presets)]
        t2 == [t1 EXCEPT !["plugins"] = CopyInto(@, <<"RocketPlugin.dll">>, tree.dll)]
        t3 == [t2 EXCEPT !["settings"] = CopyInto(@, <<"rocketplugin.set">>, tree.set)]
    IN  IF ~isDir \/ ~tree.hasPresets
        THEN [raised |-> TRUE, targets |-> tgt, copied |-> FALSE]
        ELSE IF tree.presets # {} /\ ~canWrite("cfg")
        THEN [raised |-> TRUE, targets |-> tgt, copied |-> FALSE]
        ELSE IF tree.dll = "absent" \/ ~canWrite("plugins")
        THEN [raised |-> TRUE, targets |-> t1, copied |-> tree.presets # {}]
        ELSE IF tree.set = "absent" \/ ~canWrite("settings")
        THEN [raised |-> TRUE, targets |-> t2, copied |-> TRUE]
        ELSE [raised |-> FALSE, targets |-> t3, copied |-> TRUE]

\* the entries without those named in gone
Remove(ents, gone) == [n \in (DOMAIN ents) \ gone |-> ents[n]]

\* cleanDownloads(zipped_file_dir, file_dir); locked names the target that
\* another process holds, "none" if neither
CleanDownloads(zipped_file_dir, file_dir, dir, ents, locked) ==
    LET z == EntryName(zipped_file_dir, dir)
        d == EntryName(file_dir, dir)
    IN  IF z \notin DOMAIN ents \/ ents[z].kind # "file" \/ locked = "zip"
        THEN [raised |-> TRUE, entries |-> ents, deleted |-> FALSE]
        ELSE IF d \notin (DOMAIN ents) \ {z} \/ ents[d].kind # "dir" \/ locked = "dir"
        THEN [raised |-> TRUE, entries |-> Remove(ents, {z}), deleted |-> TRUE]
        ELSE [raised |-> FALSE, entries |-> Remove(ents, {z, d}), deleted |-> TRUE]

\* unzipPlugins(file_dir): out is what unzip_file.bat leaves at file_dir
\* (NoTree: nothing), now the creation time it gets
UnzipPlugins(file_dir, dirs, dir, ents, out, now) ==
    IF PathExists(file_dir, dirs, dir, ents)
    THEN [entries |-> ents, invoked |-> FALSE]
    ELSE IF out = NoTree \/ EntryName(file_dir, dir) = <<>> \/ dir \notin dirs
    THEN [entries |-> ents, invoked |-> TRUE]
    ELSE [entries |-> (EntryName(file_dir, dir) :> [kind |-> "dir", ctime |-> now, tree |-> out]) @@ ents,
          invoked |-> TRUE]

\* a start that is not refused for a thread already started
ThreadStartAgain(started) == TRUE

\* threading.Thread.start(): a thread can be started only once
ThreadStart(started) == ~started

\* ------------------------------------------------------------- the inputs
DirA == <<"D:", "\\", "dl">>

DirB == <<"D:", "\\", "bm">>

DirE == <<"D:", "\\", "a", "=", "b">>

DirR == <<"D:", "\\", "RocketPlugin_", "mirror">>

Line(key, value) == key \o <<"=">> \o value \o <<"\n">>

BlankLine == <<"\n">>

CommentLine == <<"#", "paths", "\n">>

BareLine == <<"download", "_dir", "\n">>

KvLines ==
    { Line(KeyDl, DirA), Line(KeyDl, DirB), Line(KeyBm, DirB), Line(KeyDl, DirE),
      Line(<<"other", "_dir">>, DirA) }

AllLines == KvLines \cup {BlankLine, CommentLine, BareLine}

SeqsUpTo(S, n) == UNION {[1..k -> S] : k \in 0..n}

LoadDirs == {DOWNLOAD_DIR, BAKKESMOD_DIR, DirA, DirB, DirE}

AllRootFiles == {SETTINGS_TXT, UNZIP_BAT}

\* settings.txt of the runs
RunTexts ==
    { <<>>, <<CommentLine>>, <<Line(KeyDl, DirA), Line(KeyBm, DirB)>>,
      <<Line(KeyDl, DirR)>>, <<BareLine>> }

\* directories on disk of the runs
RunDirs ==
    { {DOWNLOAD_DIR, BAKKESMOD_DIR, DirA, DirB, DirR}, {},
      {DOWNLOAD_DIR, BAKKESMOD_DIR}, {DirA, DirB, DirR}, {DOWNLOAD_DIR, DirA, DirR} }

File(data) == [hasPresets |-> TRUE,
               presets |-> {[name |-> <<"casual.cfg">>, data |-> data],
                            [name |-> <<"ranked.cfg">>, data |-> data]},
               dll |-> data, set |-> data]

\* what the extraction helper can leave behind
HelperTrees ==
    { NoTree, File("new"),
      [File("new") EXCEPT !.dll = "absent"],
      [File("new") EXCEPT !.hasPresets = FALSE, !.presets = {}],
      [File("new") EXCEPT !.set = "absent"] }

ZipV1 == <<"RocketPlugin_", "v1", ".zip">>

ZipV2 == <<"RocketPlugin_", "v2", ".zip">>

ZipUpper == <<"RocketPlugin_", "v3", ".ZIP">>

ZipOther == <<"other", ".zip">>

SavedNames == {ZipV1, ZipV2, ZipUpper, ZipOther}

ZipFile(t) == [kind |-> "file", ctime |-> t, tree |-> NoTree]

\* entries of the download directory before the run
RunEntries ==
    { <<>>,
      (ZipOther :> ZipFile(1)),
      (ZipV1 :> ZipFile(1)) @@ (ZipOther :> ZipFile(2)),
      (ZipV1 :> ZipFile(1)) @@ (<<"RocketPlugin_", "v1">> :> [kind |-> "dir", ctime |-> 2, tree |-> File("stale")]) }

Subfolders == {"cfg", "plugins", "settings"}

EmptyTargets == [d \in Subfolders |-> {}]

OldTargets ==
    [d \in Subfolders |->
        IF d = "cfg" THEN {[name |-> <<"casual.cfg">>, data |-> "old"], [name |-> <<"mine.cfg">>, data |-> "old"]}
        ELSE IF d = "plugins" THEN {[name |-> <<"RocketPlugin.dll">>, data |-> "old"]}
        ELSE {[name |-> <<"rocketplugin.set">>, data |-> "old"]}]

\* the framework directory before the run: existing subfolders and files
RunLayouts ==
    { [subs |-> Subfolders, targets |-> OldTargets],
      [subs |-> Subfolders, targets |-> EmptyTargets],
      [subs |-> {"cfg", "plugins"}, targets |-> EmptyTargets] }

\* ------------------------------------------------------------------ state
VARIABLES
    rootFiles,        \* files next to the program
    text,             \* lines of settings.txt
    dirs,             \* directories that exist
    subs,             \* subfolders of the framework directory that exist
    targets,          \* files of the subfolders of the framework directory
    entries,          \* entries of the download directory
    clock,            \* creation time of the next entry
    saves,            \* files saved by the browser
    settings,         \* the global mapping
    pc,               \* position of GUI.main
    error_occurred,
    filename,
    zipped_file_dir,
    file_dir,
    started,          \* the worker thread has been started
    mainloop,         \* root.mainloop() is running
    idle,             \* callbacks queued by after_idle
    progress,         \* self.progress
    bar,              \* value of the progress bar
    dialogs,          \* message boxes shown
    loadRet,          \* result of loadSettings
    raisedIn,         \* function whose error ended the thread
    polls,            \* passes of the polling loop without a match
    clicks,           \* presses of Start
    runs,             \* executions of GUI.main begun
    posted,           \* calls of after_idle
    completed,        \* steps that returned success
    effects,          \* browser launch, helper run, copy, delete
    source            \* the tree updatePlugins read

disk == <<rootFiles, text, dirs, subs>>

locals == <<filename, zipped_file_dir, file_dir>>

ui == <<mainloop, idle, progress, bar>>

vars == <<rootFiles, text, dirs, subs, targets, entries, clock, saves, settings, pc,
          error_occurred, filename, zipped_file_dir, file_dir, started, mainloop,
          idle, progress, bar, dialogs, loadRet, raisedIn, polls, clicks, runs,
          posted, completed, effects, source>>

\* the state after module import and GUI.__init__ up to root.mainloop()
Fresh ==
    /\ settings = DefaultSettings
    /\ error_occurred = FALSE
    /\ filename = <<>> /\ zipped_file_dir = <<>> /\ file_dir = <<>>
    /\ started = FALSE /\ mainloop = TRUE
    /\ idle = <<>> /\ progress = FZero /\ bar = 0
    /\ dialogs = <<>> /\ loadRet = "none" /\ raisedIn = "none"
    /\ polls = 0 /\ clicks = 0 /\ runs = 0 /\ posted = 0
    /\ completed = <<>> /\ effects = {} /\ source = NoTree
    /\ clock = 3 /\ saves = 0

Init ==
    /\ Fresh
    /\ pc = "idle"
    /\ rootFiles \in SUBSET AllRootFiles
    /\ text \in (IF SETTINGS_TXT \in rootFiles THEN RunTexts ELSE {<<>>})
    /\ dirs \in RunDirs
    /\ entries \in RunEntries
    /\ \E lay \in RunLayouts : subs = lay.subs /\ targets = lay.targets

\* ---------------------------------------------------------------- actions
\* self.root.after_idle(self.update, (100 / 6))
AfterIdle == idle' = Append(idle, Increment) /\ posted' = posted + 1

\* a step returned: it is complete and its progress is posted
StepDone(step, next) ==
    /\ completed' = Append(completed, step)
    /\ AfterIdle
    /\ pc' = next
    /\ raisedIn' = raisedIn

\* an error leaves GUI.main: the worker thread ends
Raise(step) ==
    /\ pc' = "crashed"
    /\ raisedIn' = step
    /\ UNCHANGED <<completed, idle, posted>>

\* the Start button: command=lambda: thread.start()
StartButton ==
    /\ mainloop
    /\ clicks < MaxClicks
    /\ clicks' = clicks + 1
    /\ IF ThreadStart(started)
       THEN started' = TRUE /\ pc' = "check" /\ runs' = runs + 1
       ELSE UNCHANGED <<started, pc, runs>>
    /\ UNCHANGED <<disk, targets, entries, clock, saves, settings, error_occurred,
                   locals, ui, dialogs, loadRet, raisedIn, polls, posted,
                   completed, effects, source>>

\* GUI.update, run by the main loop when idle
Update ==
    /\ mainloop
    /\ idle # <<>>
    /\ progress' = FAdd(progress, Head(idle))
    /\ bar' = FCeil(progress')
    /\ idle' = Tail(idle)
    /\ UNCHANGED <<disk, targets, entries, clock, saves, settings, pc, error_occurred,
                   locals, started, mainloop, dialogs, loadRet, raisedIn, polls,
                   clicks, runs, posted, completed, effects, source>>

\* GUI.main, lines 238-242
CheckStep ==
    /\ pc = "check"
    /\ IF ~CheckDependencies(rootFiles)
       THEN /\ error_occurred' = TRUE
            /\ dialogs' = Append(dialogs, "error")
            /\ pc' = "final"
            /\ UNCHANGED <<completed, idle, posted, raisedIn>>
       ELSE /\ StepDone("checkDependencies", "load")
            /\ UNCHANGED <<error_occurred, dialogs>>
    /\ UNCHANGED <<disk, targets, entries, clock, saves, settings, locals, started,
                   mainloop, progress, bar, loadRet, polls, clicks, runs, effects,
                   source>>

\* GUI.main, lines 243-247
LoadStep ==
    /\ pc = "load"
    /\ LET r == LoadSettings(rootFiles, text, settings, dirs) IN
       /\ settings' = r.settings
       /\ loadRet' = r.ret
       /\ IF r.ret = "ValueError"
          THEN Raise("loadSettings") /\ UNCHANGED <<error_occurred, dialogs>>
          ELSE IF r.ret = "False"
          THEN /\ error_occurred' = TRUE
               /\ dialogs' = Append(dialogs, "error")
               /\ pc' = "final"
               /\ UNCHANGED <<completed, idle, posted, raisedIn>>
          ELSE /\ StepDone("loadSettings", "download")
               /\ UNCHANGED <<error_occurred, dialogs>>
    /\ UNCHANGED <<disk, targets, entries, clock, saves, locals, started, mainloop,
                   progress, bar, polls, clicks, runs, effects, source>>

\* downloadPlugins, line 133: the browser is launched and not awaited
LaunchStep ==
    /\ pc = "download"
    /\ effects' = effects \cup {"browser"}
    /\ pc' = "poll"
    /\ UNCHANGED <<disk, targets, entries, clock, saves, settings, error_occurred,
                   locals, started, ui, dialogs, loadRet, raisedIn, polls, clicks,
                   runs, posted, completed, source>>

\* downloadPlugins, one pass of the loop of lines 135-141, and line 250
PollStep ==
    /\ pc = "poll"
    /\ LET files == Glob(settings[KeyDl], dirs, entries) IN
       \E pick \in (IF files = {} THEN {<<>>} ELSE Latest(files, settings[KeyDl], entries)) :
         LET r == DownloadPoll(settings[KeyDl], dirs, entries, pick) IN
         IF r.kind = "ValueError"
         THEN Raise("downloadPlugins") /\ UNCHANGED <<locals, polls>>
         ELSE IF r.kind = "return"
         THEN /\ filename' = r.filename
              /\ zipped_file_dir' = r.latest_file
              /\ StepDone("downloadPlugins", "unzip")
              /\ UNCHANGED <<file_dir, polls>>
         ELSE /\ polls' = IF polls < MaxPolls THEN polls + 1 ELSE polls
              /\ UNCHANGED <<locals, pc, raisedIn, completed, idle, posted>>
    /\ UNCHANGED <<disk, targets, entries, clock, saves, settings, error_occurred,
                   started, mainloop, progress, bar, dialogs, loadRet, clicks, runs,
                   effects, source>>

\* the browser saves a file into the download directory
BrowserSaves ==
    /\ pc = "poll"
    /\ "browser" \in effects
    /\ settings[KeyDl] \in dirs
    /\ saves < MaxSaves
    /\ \E n \in SavedNames \ DOMAIN entries :
         entries' = (n :> ZipFile(clock)) @@ entries
    /\ clock' = clock + 1
    /\ saves' = saves + 1
    /\ UNCHANGED <<disk, targets, settings, pc, error_occurred, locals, started, ui,
                   dialogs, loadRet, raisedIn, polls, clicks, runs, posted,
                   completed, effects, source>>

\* GUI.main, lines 252-254
UnzipStep ==
    /\ pc = "unzip"
    /\ file_dir' = Replace(zipped_file_dir, <<".zip">>, <<>>)
    /\ \E out \in HelperTrees :
         LET r == UnzipPlugins(file_dir', dirs, settings[KeyDl], entries, out, clock) IN
         /\ entries' = r.entries
         /\ effects' = IF r.invoked THEN effects \cup {"helper"} ELSE effects
         /\ clock' = IF r.entries # entries THEN clock + 1 ELSE clock
    /\ StepDone("unzipPlugins", "update")
    /\ UNCHANGED <<disk, targets, saves, settings, error_occurred, filename,
                   zipped_file_dir, started, mainloop, progress, bar, dialogs,
                   loadRet, polls, clicks, runs, source>>

\* GUI.main, lines 256-257
UpdateStep ==
    /\ pc = "update"
    /\ LET d     == EntryName(file_dir, settings[KeyDl])
           isDir == /\ settings[KeyDl] \in dirs
                    /\ d \in DOMAIN entries
                    /\ entries[d].kind = "dir"
           tree  == IF isDir THEN entries[d].tree ELSE NoTree
           r     == UpdatePlugins(settings[KeyBm], dirs, subs, targets, isDir, tree)
       IN  /\ targets' = r.targets
           /\ source' = tree
           /\ effects' = IF r.copied THEN effects \cup {"copy"} ELSE effects
           /\ IF r.raised THEN Raise("updatePlugins")
              ELSE StepDone("updatePlugins", "clean")
    /\ UNCHANGED <<disk, entries, clock, saves, settings, error_occurred, locals,
                   started, mainloop, progress, bar, dialogs, loadRet, polls, clicks,
                   runs>>

\* GUI.main, lines 259-262
CleanStep ==
    /\ pc = "clean"
    /\ \E locked \in {"none", "zip", "dir"} :
         LET r == CleanDownloads(zipped_file_dir, file_dir, settings[KeyDl], entries, locked) IN
         /\ entries' = r.entries
         /\ effects' = IF r.deleted THEN effects \cup {"delete"} ELSE effects
         /\ IF r.raised
            THEN Raise("cleanDownloads") /\ dialogs' = dialogs
            ELSE /\ StepDone("cleanDownloads", "final")
                 /\ dialogs' = Append(dialogs, "info")
    /\ UNCHANGED <<disk, targets, clock, saves, settings, error_occurred, locals,
                   started, mainloop, progress, bar, loadRet, polls, clicks, runs,
                   source>>

\* GUI.main, lines 264-267
FinalStep ==
    /\ pc = "final"
    /\ dialogs' = IF error_occurred THEN Append(dialogs, "error") ELSE dialogs
    /\ mainloop' = FALSE
    /\ pc' = "done"
    /\ UNCHANGED <<disk, targets, entries, clock, saves, settings, error_occurred,
                   locals, started, idle, progress, bar, loadRet, raisedIn, polls,
                   clicks, runs, posted, completed, effects, source>>

Next ==
    \/ StartButton
    \/ Update
    \/ CheckStep
    \/ LoadStep
    \/ LaunchStep
    \/ PollStep
    \/ BrowserSaves
    \/ UnzipStep
    \/ UpdateStep
    \/ CleanStep
    \/ FinalStep

Spec == Init /\ [][Next]_vars

\* ----------------------------------------------- loadSettings on its own
InitLoad ==
    /\ Fresh
    /\ pc = "call"
    /\ rootFiles \in {{UNZIP_BAT}, AllRootFiles}
    /\ text \in (IF SETTINGS_TXT \in rootFiles THEN SeqsUpTo(AllLines, MaxLines) ELSE {<<>>})
    /\ dirs \in SUBSET LoadDirs
    /\ entries = <<>>
    /\ subs = Subfolders /\ targets = EmptyTargets

\* settings.txt is read and the mapping updated
LoadCall ==
    /\ pc = "call"
    /\ LET r == LoadSettings(rootFiles, text, settings, dirs) IN
       /\ settings' = r.settings
       /\ loadRet' = r.ret
    /\ pc' = "returned"
    /\ UNCHANGED <<disk, targets, entries, clock, saves, error_occurred, locals,
                   started, ui, dialogs, raisedIn, polls, clicks, runs, posted,
                   completed, effects, source>>

NextLoad == LoadCall

SpecLoad == InitLoad /\ [][NextLoad]_vars

\* ------------------------------------------------------------- run states
Failed == error_occurred \/ pc = "crashed"

Succeeded == pc \in {"final", "done"} /\ ~error_occurred

Range(q) == {q[i] : i \in 1..Len(q)}

StepOrder == <<"checkDependencies", "loadSettings", "downloadPlugins",
               "unzipPlugins", "updatePlugins", "cleanDownloads">>

\* ------------------------------------------------------------------ claims
\* a run ended by one of the failures C1 names
StepFailed ==
    \/ error_occurred
    \/ /\ pc = "crashed"
       /\ raisedIn \in {"downloadPlugins", "unzipPlugins", "updatePlugins", "cleanDownloads"}

\* C1: whenever a step of a run fails (a False return of checkDependencies
\* or loadSettings, or an error raised by a later step) the run is Failed,
\* no later step is executed and an error dialog is shown.
C1_FailureNotified ==
    /\ [](StepFailed => "error" \in Range(dialogs))
    /\ [][StepFailed => completed' = completed /\ effects' = effects]_vars

\* C2: every run shows exactly one modal dialog: never two, and one once
\* the run has ended.
C2_ExactlyOneDialog ==
    /\ Len(dialogs) <= 1
    /\ pc \in {"done", "crashed"} => Len(dialogs) = 1

\* C3: when settings.txt or unzip_file.bat is missing, or loadSettings
\* returns False, the run is Failed once the failing check has run and no
\* side effect ever occurs: no browser launch, no helper run, no copy, no
\* delete.
C3_NoSideEffects ==
    LET depMissing == SETTINGS_TXT \notin rootFiles \/ UNZIP_BAT \notin rootFiles IN
    /\ (depMissing \/ loadRet = "False") => effects = {}
    /\ (depMissing /\ pc \notin {"idle", "check"}) =>
           error_occurred /\ pc \in {"final", "done"} /\ completed = <<>>
    /\ loadRet = "False" =>
           error_occurred /\ pc \in {"final", "done"} /\ completed = <<"checkDependencies">>

C3_Witness ==
    /\ loadRet = "False" /\ pc = "done" /\ effects = {}
    /\ dirs # {}

\* the lines of text that set key k, as the file states them
IsBlankOrComment(line) == Strip(line) = <<>> \/ Strip(line)[1] = "#"

IsKeyValue(line) == ~IsBlankOrComment(line) /\ "=" \in Range(Strip(line))

Sets(line, k) == IsKeyValue(line) /\ StartsWith(Strip(line), k \o <<"=">>)

ValueOf(line, k) == Suffix(Strip(line), Len(k) + 2)

\* the value key k has after the first n lines: the last configured path
\* that exists, else the default
RECURSIVE Effective(_, _)
Effective(k, n) ==
    IF n = 0 THEN DefaultSettings[k]
    ELSE IF Sets(text[n], k) /\ ValueOf(text[n], k) \in dirs THEN ValueOf(text[n], k)
    ELSE Effective(k, n - 1)

Configured(k) == {ValueOf(text[i], k) : i \in {j \in 1..Len(text) : Sets(text[j], k)}}

\* C4: for a settings.txt that is absent, empty or made of blank, comment
\* and key=value lines, loadSettings does not raise, returns False whenever
\* some key has neither a configured path that exists nor a default that
\* exists, and so returns True only with both settings naming existing
\* directories.
C4_FalseWhenNoUsableValue ==
    (pc = "returned" /\ \A i \in 1..Len(text) : IsBlankOrComment(text[i]) \/ IsKeyValue(text[i])) =>
        /\ loadRet # "ValueError"
        /\ (\E k \in {KeyDl, KeyBm} : Configured(k) \cap dirs = {} /\ DefaultSettings[k] \notin dirs)
               => loadRet = "False"
        /\ loadRet = "True" => \A k \in {KeyDl, KeyBm} : settings[k] \in dirs

AllKeyValue == text # <<>> /\ \A i \in 1..Len(text) : IsKeyValue(text[i])

\* when both keys are configured with paths that all exist, loadSettings
\* returns True with both settings equal to the configured values
BothConfigured ==
    (\A k \in {KeyDl, KeyBm} : Configured(k) # {} /\ Configured(k) \subseteq dirs) =>
        /\ loadRet = "True"
        /\ \A k \in {KeyDl, KeyBm} : settings[k] \in Configured(k)

\* C5 as stated: for a settings.txt of key=value lines, after loadSettings
\* each recognized key holds the configured path if it exists and otherwise
\* its default; unrecognized keys change nothing; both configured paths
\* existing gives True with the configured values.
C5_AsStated ==
    (pc = "returned" /\ AllKeyValue) =>
        /\ DOMAIN settings = {KeyDl, KeyBm}
        /\ \A k \in {KeyDl, KeyBm} : settings[k] = Effective(k, Len(text))
        /\ BothConfigured

\* the first line that configures a missing path for a key whose current
\* value is missing too, 0 if there is none
Failing(i) ==
    \E k \in {KeyDl, KeyBm} :
        /\ Sets(text[i], k)
        /\ ValueOf(text[i], k) \notin dirs
        /\ Effective(k, i - 1) \notin dirs

FailIdx ==
    IF \E i \in 1..Len(text) : Failing(i)
    THEN CHOOSE i \in 1..Len(text) : Failing(i) /\ \A j \in 1..(i - 1) : ~Failing(j)
    ELSE 0

\* C5 (amended): for a settings.txt of key=value lines, loadSettings returns
\* False at the first line that configures a missing path for a key whose
\* current value is missing too, and True if there is no such line; each
\* recognized key then holds the last existing path configured for it on
\* the lines read up to there, else its default; a missing path is never
\* adopted, unrecognized keys change nothing, and both configured paths
\* existing gives True with the configured values.
C5_UpToFailingLine ==
    (pc = "returned" /\ AllKeyValue) =>
        /\ DOMAIN settings = {KeyDl, KeyBm}
        /\ loadRet = (IF FailIdx = 0 THEN "True" ELSE "False")
        /\ \A k \in {KeyDl, KeyBm} :
               /\ settings[k] = Effective(k, IF FailIdx = 0 THEN Len(text) ELSE FailIdx)
               /\ settings[k] \in dirs \/ settings[k] = DefaultSettings[k]
        /\ BothConfigured

C5_Witness ==
    /\ pc = "returned" /\ AllKeyValue /\ Len(text) = MaxLines
    /\ loadRet = "True"
    /\ settings[KeyDl] # DOWNLOAD_DIR
    /\ \E i \in 1..Len(text) : Sets(text[i], KeyDl) /\ ValueOf(text[i], KeyDl) \notin dirs

\* the newest .zip entries of the polled directory
ZipNames == IF settings[KeyDl] \in dirs THEN {n \in DOMAIN entries : IsZipName(n)} ELSE {}

Newest == {n \in ZipNames : \A m \in ZipNames : entries[m].ctime <= entries[n].ctime}

\* C6: a pass of the polling loop returns exactly when the newest .zip of
\* download_dir has a name matching RocketPlugin_, and returns that file;
\* in every other state (no .zip at all included) it polls again: it
\* neither returns nor raises.
C6_ReturnsIffNewestMatches ==
    [][(pc = "poll" /\ (pc' # "poll" \/ polls' # polls)) =>
          IF \E n \in Newest : Contains(n, <<"RocketPlugin_">>)
          THEN /\ pc' = "unzip"
               /\ filename' \in Newest
               /\ zipped_file_dir' = settings[KeyDl] \o Sep \o filename'
          ELSE pc' = "poll"]_vars

\* the files of the tree that was installed are in the framework folders,
\* each the only file of its name there
Holds(folder, name, data) ==
    \A g \in folder : g.name = name => g.data = data

Installed ==
    /\ source.hasPresets /\ source.dll # "absent" /\ source.set # "absent"
    /\ \A f \in source.presets : f \in targets["cfg"] /\ Holds(targets["cfg"], f.name, f.data)
    /\ [name |-> <<"RocketPlugin.dll">>, data |-> source.dll] \in targets["plugins"]
    /\ Holds(targets["plugins"], <<"RocketPlugin.dll">>, source.dll)
    /\ [name |-> <<"rocketplugin.set">>, data |-> source.set] \in targets["settings"]
    /\ Holds(targets["settings"], <<"rocketplugin.set">>, source.set)

Present(p) == EntryName(p, settings[KeyDl]) \in DOMAIN entries

\* C7: when a run is Succeeded the archive and the extracted directory no
\* longer exist and cfg, plugins and plugins/settings hold the presets,
\* RocketPlugin.dll and rocketplugin.set of the extracted tree, same-named
\* files overwritten.
C7_SucceededInstalledAndCleaned ==
    Succeeded =>
        /\ completed = StepOrder
        /\ ~Present(zipped_file_dir)
        /\ ~Present(file_dir)
        /\ Installed

C7_Witness ==
    /\ Succeeded
    /\ source = File("new")
    /\ [name |-> <<"mine.cfg">>, data |-> "old"] \in targets["cfg"]
    /\ saves > 0

\* C8: the increments posted equal the steps completed, the accumulator
\* never decreases and stays within [0, 100], six increments are posted
\* exactly on Succeeded runs and fewer on Failed runs.
C8_ProgressWithinBounds ==
    /\ [](/\ posted = Len(completed)
          /\ FLeq(FZero, progress) /\ FLeq(progress, Hundred)
          /\ Succeeded => posted = Steps
          /\ Failed => posted < Steps)
    /\ [][FLeq(progress, progress')]_vars

\* C9: GUI.main is executed at most once however often Start is pressed:
\* only the first press starts the thread, and the steps completed are
\* those of a single execution in order.
C9_SingleRun ==
    /\ [](/\ runs <= 1
          /\ started <=> runs = 1
          /\ completed = SubSeq(StepOrder, 1, Len(completed)))
    /\ [][(clicks' # clicks /\ started) =>
             runs' = runs /\ pc' = pc /\ completed' = completed]_vars

C9_Witness ==
    /\ clicks = MaxClicks /\ runs = 1
    /\ "downloadPlugins" \in Range(completed)

\* C10: the archive and the extracted directory are deleted only after
\* every installation copy of the run has completed; a run that fails at
\* or before the install step leaves them on disk.
C10_CleanupAfterInstall ==
    /\ "delete" \in effects => "updatePlugins" \in Range(completed) /\ Installed
    /\ (Failed /\ "updatePlugins" \notin Range(completed)) =>
           /\ "delete" \notin effects
           /\ zipped_file_dir # <<>> => Present(zipped_file_dir)
           /\ source # NoTree =>
                  /\ Present(file_dir)
                  /\ entries[EntryName(file_dir, settings[KeyDl])].tree = source

C10_Witness ==
    /\ pc = "crashed" /\ raisedIn = "updatePlugins"
    /\ "copy" \in effects
    /\ Present(zipped_file_dir) /\ Present(file_dir)

====
